---- MODULE Spec2Model ----
(***************************************************************************)
(* Model of the message library python_libs/messages.py (Colors, Styles,   *)
(* Severity, Messages) and of the bootstrap script test/setup.py (main).   *)
(*                                                                         *)
(* Python strings are sequences of chunks; a chunk is an atomic piece of   *)
(* text written as a TLA+ string.  "ESC" stands for the byte \033, and the *)
(* glyphs are named: ROCKET, CHECK, WARNSIGN, CROSS, BUG.                  *)
(***************************************************************************)
EXTENDS Integers, Sequences, FiniteSets, TLC

VARIABLES
    levels,             \* Severity.levels: id -> [icon, label, color]
    defaults,           \* Messages.defaults: [severity_level, style]
    severity_created,   \* Severity._instance_created
    messages_created,   \* Messages._instance_created
    call,               \* the library call made last, with its arguments
    ret,                \* what that call returned, or the exception it raised
    stdout,             \* the lines the last call or step wrote
    pc,                 \* setup.py main: the statement to run next
    args,               \* setup.py main: the parsed command line
    compose_cmd,        \* setup.py main: the compose command found
    env_file,           \* whether .env exists
    env_example,        \* whether .env.example exists
    cmds,               \* the external commands run so far, in order
    ran,                \* the steps of main run so far, in order
    succeeded,          \* the steps of main that returned success
    exit_code           \* the process exit code, NoExit while running

libvars == <<levels, defaults, severity_created, messages_created, call, ret>>
mainvars == <<pc, args, compose_cmd, env_file, env_example, cmds, ran, succeeded, exit_code>>
vars == <<levels, defaults, severity_created, messages_created, call, ret, stdout,
          pc, args, compose_cmd, env_file, env_example, cmds, ran, succeeded, exit_code>>

(***************************************************************************)
(* Bounds and input sets                                                   *)
(***************************************************************************)
MaxMsgLen == 1

None == "<None>"

Hello == <<"Hello">>
MsgChunks == {"x"}
RECURSIVE SeqsUpTo(_, _)
SeqsUpTo(S, n) ==
    IF n = 0 THEN {<<>>}
    ELSE LET shorter == SeqsUpTo(S, n - 1)
         IN shorter \cup {Append(s, c) : s \in shorter, c \in S}
MessageTexts == {Hello} \cup SeqsUpTo(MsgChunks, MaxMsgLen)

BuiltinIds == {"COOL", "INFO", "WARN", "FATAL"}
AddIds == {"DEBUG", "WARN"}
RemoveIds == {"INFO", "WARN", "DEBUG", "UNKNOWN"}
SeverityIds == BuiltinIds \cup AddIds \cup RemoveIds
AddDescriptors ==
    { [icon |-> "BUG", label |-> "[DEBUG] ", color |-> "CYAN"],
      [icon |-> "BUG", label |-> "[DEBUG] ", color |-> "PURPLE"] }

(***************************************************************************)
(* Python values that take part in string concatenation                    *)
(***************************************************************************)
PyNone == [type |-> "NoneType", value |-> <<>>]
PyStr(s) == [type |-> "str", value |-> s]
PyTypeError == [type |-> "TypeError", value |-> <<>>]

\* a + b: defined on two strings, TypeError otherwise
PyAdd(a, b) ==
    IF a.type = "str" /\ b.type = "str" THEN PyStr(a.value \o b.value)
    ELSE PyTypeError

\* str(id) inside an f-string
PyFormat(id) == IF id = None THEN <<"None">> ELSE <<id>>

(***************************************************************************)
(* class Colors                                                            *)
(***************************************************************************)
COLORS_YELLOW_bright ==
    "NONE" :> <<>> @@ "RESET" :> <<"ESC[0m">> @@
    "BLACK" :> <<"ESC[30m">> @@ "RED" :> <<"ESC[31m">> @@
    "GREEN" :> <<"ESC[32m">> @@ "YELLOW" :> <<"ESC[93m">> @@
    "BLUE" :> <<"ESC[34m">> @@ "MAGENTA" :> <<"ESC[35m">> @@
    "CYAN" :> <<"ESC[36m">> @@ "WHITE" :> <<"ESC[37m">> @@
    "BRIGHT_BLACK" :> <<"ESC[90m">> @@ "BRIGHT_RED" :> <<"ESC[91m">> @@
    "BRIGHT_GREEN" :> <<"ESC[92m">> @@ "BRIGHT_YELLOW" :> <<"ESC[93m">> @@
    "BRIGHT_BLUE" :> <<"ESC[94m">> @@ "BRIGHT_MAGENTA" :> <<"ESC[95m">> @@
    "BRIGHT_CYAN" :> <<"ESC[96m">> @@ "BRIGHT_WHITE" :> <<"ESC[97m">>

COLORS ==
    "NONE" :> <<>> @@ "RESET" :> <<"ESC[0m">> @@
    "BLACK" :> <<"ESC[30m">> @@ "RED" :> <<"ESC[31m">> @@
    "GREEN" :> <<"ESC[32m">> @@ "YELLOW" :> <<"ESC[33m">> @@
    "BLUE" :> <<"ESC[34m">> @@ "MAGENTA" :> <<"ESC[35m">> @@
    "CYAN" :> <<"ESC[36m">> @@ "WHITE" :> <<"ESC[37m">> @@
    "BRIGHT_BLACK" :> <<"ESC[90m">> @@ "BRIGHT_RED" :> <<"ESC[91m">> @@
    "BRIGHT_GREEN" :> <<"ESC[92m">> @@ "BRIGHT_YELLOW" :> <<"ESC[93m">> @@
    "BRIGHT_BLUE" :> <<"ESC[94m">> @@ "BRIGHT_MAGENTA" :> <<"ESC[95m">> @@
    "BRIGHT_CYAN" :> <<"ESC[96m">> @@ "BRIGHT_WHITE" :> <<"ESC[97m">>

getCode(name) ==
    IF name \notin DOMAIN COLORS THEN PyNone
    ELSE PyStr(COLORS[name])

(***************************************************************************)
(* class Styles                                                            *)
(***************************************************************************)
Styles == {"PLAIN", "COLORS", "ICONS"}

(***************************************************************************)
(* class Severity                                                          *)
(***************************************************************************)
LevelsInit ==
    "COOL" :> [icon |-> "ROCKET", label |-> "[INFO] ", color |-> "GREEN"] @@
    "INFO" :> [icon |-> "CHECK", label |-> "[INFO] ", color |-> "NONE"] @@
    "WARN" :> [icon |-> "WARNSIGN", label |-> "[WARNING] ", color |-> "YELLOW"] @@
    "FATAL" :> [icon |-> "CROSS", label |-> "[FATAL] ", color |-> "RED"]

DefaultsInit == [severity_level |-> "INFO", style |-> "ICONS"]

NoCall == [op |-> "none", id |-> None, message |-> <<>>, style |-> None,
           descriptor |-> [icon |-> "", label |-> "", color |-> ""]]
Call(op, id, message, style, descriptor) ==
    [op |-> op, id |-> id, message |-> message, style |-> style,
     descriptor |-> descriptor]

\* self.levels[id] = {...}
add_level_result(lv, id, icon, label, color) ==
    [x \in DOMAIN lv \cup {id} |->
        IF x = id THEN [icon |-> icon, label |-> label, color |-> color]
        ELSE lv[x]]

\* del self.levels[id]: KeyError when id is no key
remove_level_noop(lv, id) ==
    [raised |-> "", levels |-> [x \in DOMAIN lv \ {id} |-> lv[x]]]

remove_level_result(lv, id) ==
    IF id \notin DOMAIN lv THEN [raised |-> "KeyError", levels |-> lv]
    ELSE [raised |-> "", levels |-> [x \in DOMAIN lv \ {id} |-> lv[x]]]

set_default_level_unchecked(lv, df, id) ==
    [raised |-> "", defaults |-> [df EXCEPT !.severity_level = id]]

set_default_level_result(lv, df, id) ==
    IF id = None
    THEN [raised |-> "", defaults |-> [df EXCEPT !.severity_level = None]]
    ELSE IF id \notin DOMAIN lv
    THEN [raised |-> "Exception", defaults |-> df]
    ELSE [raised |-> "", defaults |-> [df EXCEPT !.severity_level = id]]

(***************************************************************************)
(* class Messages                                                          *)
(***************************************************************************)
print_message(lv, message, severity_level, style) ==
    CASE style = "PLAIN" ->
            [raised |-> "", lines |-> <<message>>]
      [] style = "COLORS" ->
            LET color_start == getCode(lv[severity_level].color)
                color_end == getCode("RESET")
                text == PyAdd(PyAdd(color_start, PyStr(message)), color_end)
            IN IF text.type = "str"
               THEN [raised |-> "", lines |-> <<text.value>>]
               ELSE [raised |-> "TypeError", lines |-> <<>>]
      [] style = "ICONS" ->
            [raised |-> "",
             lines |-> << <<lv[severity_level].icon>> \o <<" ">> \o message >>]
      [] OTHER ->
            [raised |-> "", lines |-> <<>>]

resolve_severity_info(df, severity_level) ==
    IF severity_level = None THEN "INFO" ELSE severity_level

resolve_severity(df, severity_level) ==
    IF severity_level = None THEN df.severity_level ELSE severity_level

resolve_style(df, style) ==
    IF style = None THEN df.style ELSE style

show_message_silent(lv, df, message, severity_level, style) ==
    LET sev == resolve_severity(df, severity_level)
        sty == resolve_style(df, style)
    IN IF sev \notin DOMAIN lv
       THEN [ret |-> "False", lines |-> <<message>>]
       ELSE LET p == print_message(lv, message, sev, sty)
            IN [ret |-> IF p.raised = "" THEN "True" ELSE p.raised,
                lines |-> p.lines]

show_message_result(lv, df, message, severity_level, style) ==
    LET sev == resolve_severity(df, severity_level)
        sty == resolve_style(df, style)
    IN IF sev \notin DOMAIN lv
       THEN [ret |-> "False",
             lines |-> << <<"WARNSIGN Undeclared severity level: ">> \o PyFormat(sev),
                          message >>]
       ELSE LET p == print_message(lv, message, sev, sty)
            IN [ret |-> IF p.raised = "" THEN "True" ELSE p.raised,
                lines |-> p.lines]

(***************************************************************************)
(* The library's operations as actions                                     *)
(***************************************************************************)
\* Severity(): Severity.__new__(cls)
Severity_new ==
    /\ call' = Call("Severity", None, <<>>, None, NoCall.descriptor)
    /\ IF severity_created
       THEN ret' = "Exception" /\ UNCHANGED severity_created
       ELSE ret' = "instance" /\ severity_created' = TRUE
    /\ stdout' = <<>>
    /\ UNCHANGED <<levels, defaults, messages_created>>
    /\ UNCHANGED mainvars

\* Messages(severity) and Messages(): type.__call__ passes the constructor's
\* arguments to __new__(cls) and then to __init__(self, severity).
Messages_new(with_severity) ==
    /\ call' = Call(IF with_severity THEN "Messages(severity)" ELSE "Messages()",
                    None, <<>>, None, NoCall.descriptor)
    /\ IF with_severity
       THEN \* __new__ takes cls alone: binding the second argument fails
            ret' = "TypeError" /\ UNCHANGED messages_created
       ELSE IF messages_created
       THEN ret' = "Exception" /\ UNCHANGED messages_created
       ELSE \* __new__ returns; __init__ misses its argument severity
            ret' = "TypeError" /\ messages_created' = TRUE
    /\ stdout' = <<>>
    /\ UNCHANGED <<levels, defaults, severity_created>>
    /\ UNCHANGED mainvars

add_level(id, icon, label, color) ==
    /\ call' = Call("add_level", id, <<>>, None,
                    [icon |-> icon, label |-> label, color |-> color])
    /\ levels' = add_level_result(levels, id, icon, label, color)
    /\ ret' = "None"
    /\ stdout' = <<>>
    /\ UNCHANGED <<defaults, severity_created, messages_created>>
    /\ UNCHANGED mainvars

remove_level(id) ==
    LET r == remove_level_result(levels, id)
    IN /\ call' = Call("remove_level", id, <<>>, None, NoCall.descriptor)
       /\ levels' = r.levels
       /\ ret' = IF r.raised = "" THEN "None" ELSE r.raised
       /\ stdout' = <<>>
       /\ UNCHANGED <<defaults, severity_created, messages_created>>
       /\ UNCHANGED mainvars

set_default_level(id) ==
    LET r == set_default_level_result(levels, defaults, id)
    IN /\ call' = Call("set_default_level", id, <<>>, None, NoCall.descriptor)
       /\ defaults' = r.defaults
       /\ ret' = IF r.raised = "" THEN "self" ELSE r.raised
       /\ stdout' = <<>>
       /\ UNCHANGED <<levels, severity_created, messages_created>>
       /\ UNCHANGED mainvars

\* show_message on a renderer whose self.severity is the registry
show_message(message, severity_level, style) ==
    LET r == show_message_result(levels, defaults, message, severity_level, style)
    IN /\ call' = Call("show_message", severity_level, message, style,
                       NoCall.descriptor)
       /\ ret' = r.ret
       /\ stdout' = r.lines
       /\ UNCHANGED <<levels, defaults, severity_created, messages_created>>
       /\ UNCHANGED mainvars

(***************************************************************************)
(* setup.py: main                                                          *)
(***************************************************************************)
NoExit == -1
NoArgs == [clean |-> FALSE, force_clean |-> FALSE]
Outcomes == {"rc0", "rc1", "raise"}

LibInit ==
    /\ levels = LevelsInit
    /\ defaults = DefaultsInit
    /\ severity_created = FALSE
    /\ messages_created = FALSE
    /\ call = NoCall
    /\ ret = "None"
    /\ stdout = <<>>

Init ==
    /\ LibInit
    /\ pc = "parse_arguments"
    /\ args = NoArgs
    /\ compose_cmd = None
    /\ env_file = FALSE
    /\ env_example = FALSE
    /\ cmds = <<>>
    /\ ran = <<>>
    /\ succeeded = {}
    /\ exit_code = NoExit

Next ==
    \/ Severity_new
    \/ \E with_severity \in BOOLEAN : Messages_new(with_severity)
    \/ \E id \in AddIds, d \in AddDescriptors :
          add_level(id, d.icon, d.label, d.color)
    \/ \E id \in RemoveIds : remove_level(id)
    \/ \E id \in SeverityIds \cup {None} : set_default_level(id)
    \/ \E m \in MessageTexts, id \in SeverityIds \cup {None},
          s \in Styles \cup {None} : show_message(m, id, s)

Spec == Init /\ [][Next]_vars

\* messages.show_message(message, severity_level): the lines it writes
Show(message, severity_level) ==
    show_message_result(levels, defaults, message, severity_level, None).lines

\* check_docker(): o is how `docker --version` ended
check_docker(o) ==
    [ok |-> o = "rc0",
     cmds |-> <<"docker --version">>,
     lines |->
        CASE o = "rc0" -> Show(<<"Docker is installed">>, "INFO")
          [] o = "rc1" -> Show(<<"Docker is not installed">>, "FATAL")
                          \o << <<"Please install Docker: https://docs.docker.com/get-docker/">> >>
          [] OTHER -> Show(<<"Error checking Docker: ", "{e}">>, "FATAL")]

\* check_docker_compose(): v2 is how `docker compose version` ended, v1 how
\* `docker-compose --version` ended when it was tried
check_docker_compose(v2, v1) ==
    IF v2 = "rc0"
    THEN [ok |-> TRUE, compose_cmd |-> "docker compose",
          cmds |-> <<"docker compose version">>,
          lines |-> Show(<<"Docker Compose (V2) is available">>, "INFO")]
    ELSE IF v1 = "rc0"
    THEN [ok |-> TRUE, compose_cmd |-> "docker-compose",
          cmds |-> <<"docker compose version", "docker-compose --version">>,
          lines |-> Show(<<"Docker Compose (V1) is available">>, "INFO")]
    ELSE [ok |-> FALSE, compose_cmd |-> None,
          cmds |-> <<"docker compose version", "docker-compose --version">>,
          lines |-> Show(<<"Docker Compose is not available">>, "FATAL")
                    \o << <<"Please install Docker Compose: https://docs.docker.com/compose/install/">> >>]

\* clean_environment(compose_cmd, remove_env): o is how `down` ended, unlink_ok
\* whether env_file.unlink() returned
clean_environment(cmd, remove_env, exists, o, unlink_ok) ==
    LET start == Show(<<"Cleaning up Docker environment...">>, "WARN")
        failed == Show(<<"Error during cleanup: ", "{e}">>, "WARN")
        down == IF o = "rc0"
                THEN Show(<<"Docker environment cleaned successfully">>, "INFO")
                ELSE Show(<<"Docker environment cleanup exited with code: ", "{returncode}">>, "WARN")
    IN CASE o = "raise" ->
              [env_file |-> exists, cmds |-> <<cmd \o " down">>,
               lines |-> start \o failed]
         [] ~(remove_env /\ exists) ->
              [env_file |-> exists, cmds |-> <<cmd \o " down">>,
               lines |-> start \o down]
         [] unlink_ok ->
              [env_file |-> FALSE, cmds |-> <<cmd \o " down">>,
               lines |-> start \o down \o Show(<<".env file removed">>, "INFO")]
         [] OTHER ->
              [env_file |-> exists, cmds |-> <<cmd \o " down">>,
               lines |-> start \o down \o failed]

\* ensure_env_file(): copy_ok is whether shutil.copy2 returned
ensure_env_file(exists, example, copy_ok) ==
    IF exists
    THEN [ok |-> TRUE, env_file |-> TRUE,
          lines |-> Show(<<".env file exists">>, "INFO")]
    ELSE IF ~example
    THEN [ok |-> FALSE, env_file |-> FALSE,
          lines |-> Show(<<"Neither .env nor .env.example file found">>, "FATAL")]
    ELSE IF copy_ok
    THEN [ok |-> TRUE, env_file |-> TRUE,
          lines |-> Show(<<"Created .env file from .env.example">>, "INFO")
                    \o Show(<<"You may want to edit .env file to customize settings">>, "WARN")]
    ELSE [ok |-> FALSE, env_file |-> FALSE,
          lines |-> Show(<<"Error creating .env file: ", "{e}">>, "FATAL")]

\* run_docker_compose(compose_cmd): o is how `up -d` ended
run_docker_compose(cmd, o) ==
    [ok |-> o = "rc0",
     cmds |-> <<cmd \o " up -d">>,
     lines |-> Show(<<"Starting Docker containers...">>, "COOL") \o
        CASE o = "rc0" -> Show(<<"Docker containers started successfully">>, "INFO")
          [] o = "rc1" -> Show(<<"Failed to start Docker containers (exit code: ", "{returncode}", ")">>, "FATAL")
          [] OTHER -> Show(<<"Error running Docker Compose: ", "{e}">>, "FATAL")]

\* `if not step(): sys.exit(1)`
main_continue_always(ok, next) ==
    [pc |-> next, exit_code |-> NoExit]

main_continue(ok, next) ==
    IF ok THEN [pc |-> next, exit_code |-> NoExit]
    ELSE [pc |-> "exited", exit_code |-> 1]

\* args = parse_arguments()
main_parse_arguments(clean, force_clean) ==
    /\ pc = "parse_arguments"
    /\ args' = [clean |-> clean, force_clean |-> force_clean]
    /\ pc' = "check_docker"
    /\ UNCHANGED <<compose_cmd, env_file, env_example, cmds, ran, succeeded, exit_code>>
    /\ UNCHANGED <<libvars, stdout>>

main_check_docker(o) ==
    LET r == check_docker(o)
        c == main_continue(r.ok, "check_docker_compose")
    IN /\ pc = "check_docker"
       /\ cmds' = cmds \o r.cmds
       /\ ran' = Append(ran, "check_docker")
       /\ succeeded' = IF r.ok THEN succeeded \cup {"check_docker"} ELSE succeeded
       /\ stdout' = r.lines
       /\ pc' = c.pc
       /\ exit_code' = c.exit_code
       /\ UNCHANGED <<args, compose_cmd, env_file, env_example>>
       /\ UNCHANGED libvars

main_check_docker_compose(v2, v1) ==
    LET r == check_docker_compose(v2, v1)
        c == main_continue(r.ok,
                IF args.clean \/ args.force_clean THEN "clean_environment"
                ELSE "ensure_env_file")
    IN /\ pc = "check_docker_compose"
       /\ cmds' = cmds \o r.cmds
       /\ ran' = Append(ran, "check_docker_compose")
       /\ succeeded' = IF r.ok THEN succeeded \cup {"check_docker_compose"} ELSE succeeded
       /\ compose_cmd' = r.compose_cmd
       /\ stdout' = r.lines
       /\ pc' = c.pc
       /\ exit_code' = c.exit_code
       /\ UNCHANGED <<args, env_file, env_example>>
       /\ UNCHANGED libvars

main_clean_environment(o, unlink_ok) ==
    LET r == clean_environment(compose_cmd, args.force_clean, env_file, o, unlink_ok)
    IN /\ pc = "clean_environment"
       /\ cmds' = cmds \o r.cmds
       /\ ran' = Append(ran, "clean_environment")
       /\ env_file' = r.env_file
       /\ stdout' = r.lines
       /\ pc' = "ensure_env_file"
       /\ UNCHANGED <<args, compose_cmd, env_example, succeeded, exit_code>>
       /\ UNCHANGED libvars

main_ensure_env_file(copy_ok) ==
    LET r == ensure_env_file(env_file, env_example, copy_ok)
        c == main_continue(r.ok, "run_docker_compose")
    IN /\ pc = "ensure_env_file"
       /\ ran' = Append(ran, "ensure_env_file")
       /\ succeeded' = IF r.ok THEN succeeded \cup {"ensure_env_file"} ELSE succeeded
       /\ env_file' = r.env_file
       /\ stdout' = r.lines
       /\ pc' = c.pc
       /\ exit_code' = c.exit_code
       /\ UNCHANGED <<args, compose_cmd, env_example, cmds>>
       /\ UNCHANGED libvars

main_run_docker_compose(o) ==
    LET r == run_docker_compose(compose_cmd, o)
        c == main_continue(r.ok, "completed")
    IN /\ pc = "run_docker_compose"
       /\ cmds' = cmds \o r.cmds
       /\ ran' = Append(ran, "run_docker_compose")
       /\ succeeded' = IF r.ok THEN succeeded \cup {"run_docker_compose"} ELSE succeeded
       /\ stdout' = r.lines
       /\ pc' = c.pc
       /\ exit_code' = c.exit_code
       /\ UNCHANGED <<args, compose_cmd, env_file, env_example>>
       /\ UNCHANGED libvars

\* messages.show_message("Setup completed successfully", 'INFO'); sys.exit(0)
main_completed ==
    /\ pc = "completed"
    /\ stdout' = Show(<<"Setup completed successfully">>, "INFO")
    /\ pc' = "exited"
    /\ exit_code' = 0
    /\ UNCHANGED <<args, compose_cmd, env_file, env_example, cmds, ran, succeeded>>
    /\ UNCHANGED libvars

\* main() is entered with the module-level `messages` rendering from the
\* registry; the file system holds any combination of .env and .env.example.
MainInit ==
    /\ LibInit
    /\ pc = "parse_arguments"
    /\ args = NoArgs
    /\ compose_cmd = None
    /\ env_file \in BOOLEAN
    /\ env_example \in BOOLEAN
    /\ cmds = <<>>
    /\ ran = <<>>
    /\ succeeded = {}
    /\ exit_code = NoExit

MainNext ==
    \/ \E clean \in BOOLEAN, force_clean \in BOOLEAN :
          main_parse_arguments(clean, force_clean)
    \/ \E o \in Outcomes : main_check_docker(o)
    \/ \E v2 \in Outcomes, v1 \in Outcomes : main_check_docker_compose(v2, v1)
    \/ \E o \in Outcomes, unlink_ok \in BOOLEAN : main_clean_environment(o, unlink_ok)
    \/ \E copy_ok \in BOOLEAN : main_ensure_env_file(copy_ok)
    \/ \E o \in Outcomes : main_run_docker_compose(o)
    \/ main_completed

MainSpec == MainInit /\ [][MainNext]_vars

(***************************************************************************)
(* Properties                                                              *)
(***************************************************************************)

\* C1: for every registered severity s and each of the three styles,
\* show_message(msg, s, style) returns True and writes exactly one line: the
\* message (PLAIN), icon + space + message (ICONS), color-start + message +
\* RESET (COLORS), the color-start being empty for a color name that is not
\* in the table.
C1_RegisteredRendersOneLine ==
    (call.op = "show_message" /\ call.id \in DOMAIN levels /\ call.style \in Styles) =>
        LET d == levels[call.id]
            start == IF d.color \in DOMAIN COLORS THEN COLORS[d.color] ELSE <<>>
        IN /\ ret = "True"
           /\ stdout =
                CASE call.style = "PLAIN" -> <<call.message>>
                  [] call.style = "ICONS" -> << <<d.icon, " ">> \o call.message >>
                  [] call.style = "COLORS" ->
                        << start \o call.message \o <<"ESC[0m">> >>

\* C2: a show_message call whose resolved severity (the argument, or the
\* default when the argument is omitted, unset included) has no descriptor
\* writes the warning line and then the bare message, returns False, and
\* leaves the levels table and the defaults as they were, whatever the style.
C2_UndeclaredDegrades ==
    [][ LET sev == IF call'.id = None THEN defaults.severity_level ELSE call'.id
        IN (call'.op = "show_message" /\ sev \notin DOMAIN levels) =>
              /\ stdout' = << <<"WARNSIGN Undeclared severity level: ",
                                IF sev = None THEN "None" ELSE sev>>,
                              call'.message >>
              /\ ret' = "False"
              /\ levels' = levels
              /\ defaults' = defaults ]_vars

\* C2 witness: the default is unset, the severity was omitted, and the call
\* took the two-line path.
C2_Witness ==
    /\ call.op = "show_message"
    /\ call.id = None
    /\ defaults.severity_level = None
    /\ ret = "False"
    /\ Len(stdout) = 2

\* C3: COLORS style for a registered level whose color name is not a key of
\* the color table returns True and writes the message followed by RESET.
C3_UnknownColorEmptyStart ==
    LET sev == IF call.id = None THEN defaults.severity_level ELSE call.id
        sty == IF call.style = None THEN defaults.style ELSE call.style
    IN (/\ call.op = "show_message"
        /\ sev \in DOMAIN levels
        /\ sty = "COLORS"
        /\ levels[sev].color \notin DOMAIN COLORS) =>
          /\ ret = "True"
          /\ stdout = << call.message \o <<"ESC[0m">> >>

\* C4: set_default_level(id) raises for an unregistered id and leaves the
\* default as it was; None clears the default; a registered id becomes the
\* default.  The levels table and the default style never change.
C4_SetDefaultLevel ==
    [][ call'.op = "set_default_level" =>
          /\ levels' = levels
          /\ defaults'.style = defaults.style
          /\ IF call'.id = None
             THEN defaults'.severity_level = None /\ ret' = "self"
             ELSE IF call'.id \in DOMAIN levels
             THEN defaults'.severity_level = call'.id /\ ret' = "self"
             ELSE /\ defaults'.severity_level = defaults.severity_level
                  /\ ret' = "Exception" ]_vars

\* C4 witness: a call with an unregistered id raised and the default, set
\* to WARN by an earlier call, is still WARN.
C4_Witness ==
    /\ call.op = "set_default_level"
    /\ call.id \notin DOMAIN levels
    /\ ret = "Exception"
    /\ defaults.severity_level = "WARN"

\* C5: while the default severity is s, show_message(x) with the severity
\* omitted writes and returns what show_message(x, s) does, for every
\* message and style.
C5_DefaultEqualsExplicit ==
    defaults.severity_level # None =>
        /\ \A m \in MessageTexts, s \in Styles \cup {None} :
              show_message_result(levels, defaults, m, None, s)
                = show_message_result(levels, defaults, m, defaults.severity_level, s)
        /\ (call.op = "show_message" /\ call.id = None) =>
              [ret |-> ret, lines |-> stdout]
                = show_message_result(levels, defaults, call.message,
                                      defaults.severity_level, call.style)

\* C5 witness: set_default_level(DEBUG) has succeeded and a show_message
\* without severity rendered with it.
C5_Witness ==
    /\ call.op = "show_message"
    /\ call.id = None
    /\ defaults.severity_level = "DEBUG"
    /\ "DEBUG" \in DOMAIN levels
    /\ ret = "True"

\* C6 as stated: with the built-in registry, show_message("Hello", 'WARN',
\* Styles.COLORS) writes ESC[93m, Hello, ESC[0m.
C6_WarnWritesBrightYellow ==
    (/\ call.op = "show_message"
     /\ call.message = Hello
     /\ call.id = "WARN"
     /\ call.style = "COLORS"
     /\ levels = LevelsInit) =>
        stdout = << <<"ESC[93m", "Hello", "ESC[0m">> >>

\* C6 amended: with the built-in registry, show_message("Hello", 'WARN',
\* Styles.COLORS) returns True and writes ESC[33m, Hello, ESC[0m: the code
\* of YELLOW is \033[33m.
C6_WarnWritesYellow ==
    (/\ call.op = "show_message"
     /\ call.message = Hello
     /\ call.id = "WARN"
     /\ call.style = "COLORS"
     /\ levels = LevelsInit) =>
        /\ ret = "True"
        /\ stdout = << <<"ESC[33m", "Hello", "ESC[0m">> >>

\* C6 witness: that call was made on the built-in registry.
C6_Witness ==
    /\ call.op = "show_message"
    /\ call.message = Hello
    /\ call.id = "WARN"
    /\ call.style = "COLORS"
    /\ levels = LevelsInit
    /\ Len(stdout) = 1

\* C7: the first Severity() and the first Messages(severity) succeed, and
\* any later construction of either class raises.
C7_FirstConstructionSucceeds ==
    [][ /\ (call'.op = "Severity" /\ ~severity_created) => ret' = "instance"
        /\ (call'.op = "Severity" /\ severity_created) => ret' # "instance"
        /\ (call'.op = "Messages(severity)" /\ ~messages_created) => ret' = "instance"
        /\ (call'.op = "Messages(severity)" /\ messages_created) => ret' # "instance"
      ]_vars

C9_RemoveLevel ==
    [][ call'.op = "remove_level" =>
          IF call'.id \notin DOMAIN levels
          THEN ret' = "KeyError" /\ levels' = levels /\ defaults' = defaults
          ELSE /\ ret' = "None"
               /\ DOMAIN levels' = DOMAIN levels \ {call'.id}
               /\ \A x \in DOMAIN levels' : levels'[x] = levels[x] ]_vars

\* C9 witness: INFO, registered at the start, was removed, and removing it
\* once more raised.
C9_Witness ==
    /\ call.op = "remove_level"
    /\ call.id = "INFO"
    /\ ret = "KeyError"
    /\ "INFO" \notin DOMAIN levels

====
